---- MODULE Spec2Model ----
(***************************************************************************)
(* Model of the chat server of dummy-hermes (src/server.c): the poll loop, *)
(* the client hashtable (Identity Registry), the channel hashtable and the *)
(* member lists, the chat list (Client Directory) and the fds slot table.  *)
(*                                                                         *)
(* Pointers are small integers: NULL, WILD (a non-null value that is the   *)
(* address of no object) and the allocation numbers 1..n of the Client or  *)
(* Channel objects.  malloc() does not clear memory and the code does not  *)
(* initialise every field it later reads.  Such a field holds UNINIT until *)
(* the code first reads it; the read then finds NULL or WILD, a choice     *)
(* made at that read and kept.  Dereferencing NULL or WILD ends the        *)
(* process (pc = "crashed"); a traversal of a cyclic list never ends       *)
(* (pc = "hung"); a send() to a peer that does not read never returns      *)
(* (pc = "blocked").  Lines and names are sequences of byte values, and    *)
(* buffer is the string the read buffer of main() holds.  A handler is a   *)
(* function from a memory image to the set of memory images it can end in. *)
(***************************************************************************)
EXTENDS Integers, Sequences, FiniteSets, TLC

\* ------------------------------------------------------------- bounds
\* Number of Client objects the server allocates in a run (one per accept):
\* MaxAlloc under Spec, whose clients use one channel name and one new
\* username; WideAlloc under SpecWide, whose clients use every name below.
MaxAlloc == 3
WideAlloc == 2

\* ------------------------------------------------- program constants
MAX_CLIENTS == 1000
MAX_CHANNELS == 100
NULL == 0
WILD == -1
UNINIT == -2
NOFD == -1
POLLIN == 1
\* The listening socket: the first descriptor after stdin, stdout, stderr.
serverFD == 3

Garbage == {NULL, WILD}

Cids == 1 .. MaxAlloc
\* accept() returns the lowest descriptor that is not open.
FdRange == (serverFD + 1) .. (serverFD + MaxAlloc)
Slots == 0 .. MaxAlloc

\* ------------------------------------------------------------- names
\* Strings are sequences of character codes, so that hash() is computed.
RECURSIVE Dec(_)
Dec(n) == IF n < 10 THEN <<48 + n>> ELSE Dec(n \div 10) \o <<48 + (n % 10)>>

\* snprintf(username, usernameLength, "user%d", clientFD)
DefaultName(fd) == <<117, 115, 101, 114>> \o Dec(fd)

\* Names a client may ask for with \setusername: "user5" (the default name
\* of descriptor 5) and "0R" (same hash bucket as "user5").
RenameNames == { <<117, 115, 101, 114, 53>>, <<48, 82>> }

\* Channel names a client may \join: "lobby" and "a".
ChanNames == { <<108, 111, 98, 98, 121>>, <<97>> }

\* The names used under Spec: "user5" and "lobby".
OneRename == { <<117, 115, 101, 114, 53>> }
OneChannel == { <<108, 111, 98, 98, 121>> }

\* The lines a client sends as chat: "hi\n", and, under SpecText, also
\* "hello\n".
ChatText == <<104, 105, 10>>
LongText == <<104, 101, 108, 108, 111, 10>>
ChatTexts == {ChatText, LongText}

\* What the frame of main() may hold at buffer before the first memset
\* (line 243 declares it without an initialiser): nothing, or "?".
StackGarbage == { <<>>, <<63>> }

\* The keywords of lines 316, 335 and 339.
setusernameKeyword == <<115, 101, 116, 117, 115, 101, 114, 110, 97, 109, 101>>
exitKeyword == <<101, 120, 105, 116>>
joinKeyword == <<106, 111, 105, 110>>

\* The lines a client types: "\setusername <name>\n", "\exit\n" and
\* "\join <name>\n".
SetUsernameLine(name) == <<92>> \o setusernameKeyword \o <<32>> \o name \o <<10>>
ExitLine == <<92>> \o exitKeyword \o <<10>>
JoinLine(name) == <<92>> \o joinKeyword \o <<32>> \o name \o <<10>>

\* Command lines with a keyword that is none of the three: "\quit\n" and
\* "\exits\n".
OtherCommands ==
    { <<92, 113, 117, 105, 116, 10>>, <<92, 101, 120, 105, 116, 115, 10>> }

UserNames == RenameNames \cup { DefaultName(fd) : fd \in FdRange }
ChanIds == 1 .. Cardinality(ChanNames)

\* -------------------------------------------------------------- hash
RECURSIVE hashLoop(_, _, _, _)
hashLoop(s, i, hashValue, size) ==
    IF i > Len(s) THEN hashValue
    ELSE hashLoop(s, i + 1, s[i] + ((31 * hashValue) % size), size)

hash(s, size) == hashLoop(s, 1, 0, size)

ClientIdx == { hash(n, MAX_CLIENTS) : n \in UserNames }
ChannelIdx == { hash(n, MAX_CHANNELS) : n \in ChanNames }

\* A bucket chain: the buckets in order and the nextInChat field of the last
\* one (the table cell itself when the chain is empty).
EmptyChain == [items |-> <<>>, term |-> NULL]

PointerTables == [clientHashtable |-> MAX_CLIENTS, channelHashtable |-> MAX_CHANNELS]

RECURSIVE FindFrom(_, _, _)
FindFrom(items, key, i) ==
    IF i > Len(items) THEN 0
    ELSE IF items[i].key = key THEN i
    ELSE FindFrom(items, key, i + 1)

\* Position of the first bucket of the chain whose key is key, 0 if none.
FindIdx(chain, key) == FindFrom(chain.items, key, 1)

ChainValue(chain, key) ==
    LET i == FindIdx(chain, key)
    IN  IF i = 0 THEN NULL ELSE chain.items[i].value

RemoveAt(s, i) == [j \in 1 .. (Len(s) - 1) |-> IF j < i THEN s[j] ELSE s[j + 1]]

\* ------------------------------------------------------ machine state
\* Globals are zero-initialised; main() sets fds[0] (lines 247-248).  sent,
\* handled and slow are local to one iteration of the loop of main().
InitMem ==
    [pc |-> "poll", nAlloc |-> 0,
     username |-> [c \in Cids |-> <<>>],
     fdsIndex |-> [c \in Cids |-> 0],
     nextInChat |-> [c \in Cids |-> NULL],
     prevInChat |-> [c \in Cids |-> NULL],
     nextInChannel |-> [c \in Cids |-> NULL],
     prevInChannel |-> [c \in Cids |-> NULL],
     channel |-> [c \in Cids |-> NULL],
     chatHead |-> NULL, chatTail |-> NULL,
     clientHashtable |-> [i \in ClientIdx |-> EmptyChain],
     nChan |-> 0,
     chanName |-> [q \in ChanIds |-> <<>>],
     chanHead |-> [q \in ChanIds |-> NULL],
     chanTail |-> [q \in ChanIds |-> NULL],
     channelHashtable |-> [i \in ChannelIdx |-> EmptyChain],
     fds |-> [i \in Slots |-> IF i = 0 THEN [fd |-> serverFD, events |-> POLLIN]
                                       ELSE [fd |-> 0, events |-> 0]],
     numClients |-> 0,
     owner |-> [fd \in FdRange |-> NULL],
     buffer |-> <<>>, sent |-> <<>>, handled |-> NULL, slow |-> {}]

\* pc is "poll" while the process runs (it waits in poll() between two
\* iterations), "crashed" once it has dereferenced a pointer that is the
\* address of no object, "hung" once it is in a loop that never ends,
\* "blocked" while it waits in send() for a peer to read.
Running(m) == m.pc = "poll"
Crash(m) == [m EXCEPT !.pc = "crashed"]
Hang(m) == [m EXCEPT !.pc = "hung"]
Block(m) == [m EXCEPT !.pc = "blocked"]

IsClient(m, p) == p \in 1 .. m.nAlloc
IsChannel(m, q) == q \in 1 .. m.nChan

Rd(f, p) == IF p \in DOMAIN f THEN f[p] ELSE NULL

\* Sequencing: F applied to every image of S in which the process still runs.
Then(S, F(_)) == UNION { IF Running(x) THEN F(x) ELSE {x} : x \in S }

\* The first read of field f of client p settles what it holds.
ReadField(m, f, p) ==
    IF Running(m) /\ IsClient(m, p) /\ m[f][p] = UNINIT
    THEN { [m EXCEPT ![f][p] = g] : g \in Garbage }
    ELSE {m}

\* A write past the end of an allocation, or an index past the end of an
\* array: the process goes on, or the damage ends it.
Undefined(m) == {m, Crash(m)}

\* send(fd, msg, len, 0) on a socket left in blocking mode: m.slow holds the
\* descriptors whose peer does not read and whose send buffer is full.
Send(m, fd, msg) ==
    IF fd \in m.slow THEN Block(m)
    ELSE [m EXCEPT !.sent = Append(@, [fd |-> fd, msg |-> msg])]

\* read(fd, buffer, sizeof buffer) at line 306 stores the line at the start
\* of buffer; the bytes behind it stay as they were.  m.buffer is the string
\* that starts at buffer: its bytes up to the first zero.
readLine(m, line) ==
    [m EXCEPT !.buffer = line \o SubSeq(@, Len(line) + 1, Len(@))]

\* memset(buffer, 0, sizeof buffer), lines 328 and 383.
clearBuffer(m) == [m EXCEPT !.buffer = <<>>]

\* close(fd): the kernel forgets the connection; EBADF when fd is not open.
Close(m, fd) ==
    IF fd \in DOMAIN m.owner THEN [m EXCEPT !.owner[fd] = NULL] ELSE m

\* ------------------------------------------------- the two hashtables
\* The walk along the chain of key in table (lines 85-88, 97-100, 112-115,
\* 126-135, 142-151): up to the bucket holding key, or, when toEnd or when
\* no bucket holds it, to the nextInChat of the last bucket, which must be
\* NULL for the walk to stop.
walkChain(m, table, key, toEnd) ==
    LET size == PointerTables[table]
        idx == hash(key, size)
        inBounds == IF idx < 0 \/ idx >= size THEN Undefined(m) ELSE {m}
        end(x) == IF ~toEnd /\ FindIdx(x[table][idx], key) > 0 THEN {x}
                  ELSE IF x[table][idx].term = UNINIT
                  THEN {[x EXCEPT ![table][idx].term = NULL], Crash(x)}
                  ELSE IF x[table][idx].term = NULL THEN {x}
                  ELSE {Crash(x)}
    IN  Then(inBounds, end)

\* Lines 102-106 and 117-121.  malloc(sizeof(newBucket)) reserves the size of
\* a pointer for a bucket of three pointers, and newBucket->nextInChat is
\* never set.
appendBucket(m, table, key, value) ==
    LET idx == hash(key, PointerTables[table])
        store(x) ==
            Undefined([x EXCEPT ![table][idx] =
                 [items |-> Append(x[table][idx].items, [key |-> key, value |-> value]),
                  term |-> UNINIT]])
    IN  Then(walkChain(m, table, key, TRUE), store)

\* Lines 84-92.
deleteClientByUsername(m, username) ==
    LET idx == hash(username, MAX_CLIENTS)
        splice(x) ==
            LET i == FindIdx(x.clientHashtable[idx], username)
            IN  IF i = 0 THEN {x}
                ELSE {[x EXCEPT !.clientHashtable[idx].items = RemoveAt(@, i)]}
    IN  Then(walkChain(m, "clientHashtable", username, FALSE), splice)

\* Lines 96-107.
insertClient(m, username, c) == appendBucket(m, "clientHashtable", username, c)

\* Lines 111-122.
insertChannel(m, name, c) == appendBucket(m, "channelHashtable", name, c)

\* A lookup that finds nobody, whatever the registry holds: with it in the
\* place of getClientByUsername no \setusername is rejected.
noClientByUsername(m, username) == NULL

\* Lines 125-138: the value returned once the walk has ended.
getClientByUsername(m, username) ==
    ChainValue(m.clientHashtable[hash(username, MAX_CLIENTS)], username)

\* Lines 141-154.
getChannelByName(m, name) ==
    ChainValue(m.channelHashtable[hash(name, MAX_CHANNELS)], name)

\* ----------------------------------------------------------- freeClient
\* What username holds after free(client->username).
FREED == <<>>

\* freeSlot without line 177: the client whose descriptor is moved keeps the
\* index of the slot it has left.
freeSlotKeepIndex(m, client) ==
    LET idx == m.fdsIndex[client]
        m1 == [Close(m, m.fds[idx].fd) EXCEPT !.username[client] = FREED]
        tail == m.chatTail
        tidx == Rd(m.fdsIndex, tail)
        fdsA == [m.fds EXCEPT ![idx].fd = m.fds[tidx].fd]
        fdsB == [fdsA EXCEPT ![tidx].fd = NOFD, ![tidx].events = 0]
    IN  IF ~IsClient(m, tail) THEN Crash(m)
        ELSE [m1 EXCEPT !.fds = fdsB]

\* Lines 165-179: close the descriptor, free the name, and move chatTail's
\* descriptor into the slot of the client being removed.
freeSlot(m, client) ==
    LET idx == m.fdsIndex[client]
        m1 == [Close(m, m.fds[idx].fd) EXCEPT !.username[client] = FREED]
        tail == m.chatTail
        tidx == Rd(m.fdsIndex, tail)
        fdsA == [m.fds EXCEPT ![idx].fd = m.fds[tidx].fd]
        fdsB == [fdsA EXCEPT ![tidx].fd = NOFD, ![tidx].events = 0]
    IN  IF ~IsClient(m, tail) THEN Crash(m)
        ELSE [m1 EXCEPT !.fds = fdsB, !.fdsIndex[tail] = idx]

\* Lines 187-190 (next, prev are the InChat fields) and 216-219 (the
\* InChannel fields).
spliceTail(m, next, prev, client, tail, prevTail) ==
    IF client = tail \/ client = prevTail THEN m
    ELSE IF ~IsClient(m, m[next][client]) THEN Crash(m)
    ELSE [[m EXCEPT ![next][tail] = m[next][client]]
             EXCEPT ![prev][m[next][client]] = tail]

\* Lines 191 and 220.
copyPrev(m, prev, client, tail) ==
    IF ~Running(m) THEN m
    ELSE [m EXCEPT ![prev][tail] = m[prev][client]]

\* Lines 192-198.
relinkInChat(m, client) ==
    IF ~Running(m) THEN m
    ELSE IF client = m.chatHead
    THEN [m EXCEPT !.chatHead = IF m.chatHead = m.chatTail THEN NULL ELSE m.chatTail]
    ELSE IF ~IsClient(m, m.prevInChat[client]) THEN Crash(m)
    ELSE [m EXCEPT !.nextInChat[m.prevInChat[client]] = m.chatTail]

\* Lines 200-205.
setChatTail(m, client, prevTail) ==
    IF ~Running(m) \/ prevTail = client THEN m
    ELSE IF prevTail = NULL THEN [m EXCEPT !.chatTail = NULL]
    ELSE IF ~IsClient(m, prevTail) THEN Crash(m)
    ELSE [m EXCEPT !.chatTail = prevTail, !.nextInChat[prevTail] = NULL]

\* Lines 181-205: take the client out of the chat list by moving chatTail
\* into its place.  Every field read here has been read before.
unlinkInChat(m, client) ==
    setChatTail(
        relinkInChat(
            copyPrev(
                spliceTail(m, "nextInChat", "prevInChat", client,
                           m.chatTail, m.prevInChat[m.chatTail]),
                "prevInChat", client, m.chatTail),
            client),
        client, m.prevInChat[m.chatTail])

\* Lines 221-227.
relinkInChannel(m, client, channel, channelHead, channelTail) ==
    IF ~Running(m) THEN m
    ELSE IF client = channelHead
    THEN [m EXCEPT !.chanHead[channel] =
              IF channelHead = channelTail THEN NULL ELSE channelTail]
    ELSE IF ~IsClient(m, m.prevInChannel[client]) THEN Crash(m)
    ELSE [m EXCEPT !.nextInChannel[m.prevInChannel[client]] = channelTail]

\* Lines 229-234: the test and the store use channelTail, the tail before
\* the removal, not channel->tail.
setChannelTail(m, client, channel, channelTail, prevTail) ==
    IF ~Running(m) \/ prevTail = client THEN m
    ELSE IF channelTail # NULL
    THEN [m EXCEPT !.chanTail[channel] = prevTail,
                   !.nextInChannel[channelTail] = NULL]
    ELSE [m EXCEPT !.chanTail[channel] = prevTail]

\* Lines 207-234: the same for the member list of client->channel.  channel,
\* channelTail and prevTail have been read and channel and channelTail are
\* addresses of objects.
unlinkFrom(m, client, channel, channelHead, channelTail, prevTail) ==
    setChannelTail(
        relinkInChannel(
            copyPrev(
                spliceTail(m, "nextInChannel", "prevInChannel", client,
                           channelTail, prevTail),
                "prevInChannel", client, channelTail),
            client, channel, channelHead, channelTail),
        client, channel, channelTail, prevTail)

unlinkInChannel(m, client) ==
    unlinkFrom(m, client, m.channel[client],
               m.chanHead[m.channel[client]], m.chanTail[m.channel[client]],
               m.prevInChannel[m.chanTail[m.channel[client]]])

\* Lines 164-236, with the first reads of the fields the code never set.
freeClient(m, client) ==
    LET \* 182, 191
        chatReads(x) ==
            Then(ReadField(x, "prevInChat", x.chatTail),
                 LAMBDA y : ReadField(y, "prevInChat", client))
        \* 188: client->nextInChat is read when the branch is taken
        chatBranch(x) ==
            IF client # x.chatTail /\ client # x.prevInChat[x.chatTail]
            THEN ReadField(x, "nextInChat", client) ELSE {x}
        \* 207-211
        channelReads(x) ==
            Then(ReadField(x, "channel", client),
                 LAMBDA y :
                     IF ~IsChannel(y, y.channel[client]) THEN {Crash(y)}
                     ELSE IF ~IsClient(y, y.chanTail[y.channel[client]]) THEN {Crash(y)}
                     ELSE ReadField(y, "prevInChannel", y.chanTail[y.channel[client]]))
        \* 217, 220
        channelBranch(x) ==
            Then(IF client # x.chanTail[x.channel[client]]
                    /\ client # x.prevInChannel[x.chanTail[x.channel[client]]]
                 THEN ReadField(x, "nextInChannel", client) ELSE {x},
                 LAMBDA y : ReadField(y, "prevInChannel", client))
        s1 == Then({freeSlot(m, client)}, chatReads)
        s2 == Then(s1, chatBranch)
        s3 == Then(s2, LAMBDA x : {unlinkInChat(x, client)})
        s4 == Then(s3, channelReads)
        s5 == Then(s4, channelBranch)
    IN  Then(s5, LAMBDA x : {unlinkInChannel(x, client)})

\* -------------------------------------------------------------- main
welcomeMessage ==
    "=============================\n Hello, Welcome in this chat \n=============================\n"
usernameExists == "Username already exists\n"

\* accept(): the lowest descriptor that is not open.
acceptConnection(m) ==
    CHOOSE fd \in FdRange :
        /\ m.owner[fd] = NULL
        /\ \A g \in FdRange : g < fd => m.owner[g] # NULL

\* Lines 264-297.  malloc(sizeof(*client)) leaves nextInChat, prevInChat,
\* nextInChannel, prevInChannel and channel as they were in memory; only
\* username and fdsIndex are set.
onAccept(m) ==
    LET clientFD == acceptConnection(m)
        username == DefaultName(clientFD)
        client == m.nAlloc + 1
        m1 == [m EXCEPT !.owner[clientFD] = client,
                        !.nAlloc = client,
                        !.username[client] = username,
                        !.fdsIndex[client] = m.numClients + 1,
                        !.nextInChat[client] = UNINIT,
                        !.prevInChat[client] = UNINIT,
                        !.nextInChannel[client] = UNINIT,
                        !.prevInChannel[client] = UNINIT,
                        !.channel[client] = UNINIT]
        \* 278-286
        m2 == IF m1.chatHead = NULL THEN [m1 EXCEPT !.chatHead = client]
              ELSE IF ~IsClient(m1, m1.chatTail) THEN Crash(m1)
              ELSE [m1 EXCEPT !.nextInChat[m1.chatTail] = client,
                              !.prevInChat[client] = m1.chatTail]
        m3 == IF Running(m2) THEN [m2 EXCEPT !.chatTail = client] ELSE m2
        \* 291-296
        rest(x) == {Send([x EXCEPT !.fds[x.fdsIndex[client]] =
                                       [fd |-> clientFD, events |-> POLLIN],
                                   !.numClients = @ + 1],
                         clientFD, welcomeMessage)}
    IN  \* 289
        Then(Then({m3}, LAMBDA x : insertClient(x, username, client)), rest)

\* Lines 307-311: read() returned 0 or less.
onDisconnect(m, client) ==
    Then(Then(deleteClientByUsername(m, m.username[client]),
              LAMBDA x : freeClient(x, client)),
         LAMBDA x : {[x EXCEPT !.numClients = @ - 1]})

\* Lines 335-338: "\exit".
onExit(m, client) ==
    Then(deleteClientByUsername(m, m.username[client]),
         LAMBDA x : freeClient(x, client))

\* Lines 316-334: "\setusername <name>".
onSetUsername(m, client, fdsIndex, newUsername) ==
    LET rename(x) ==
            Then(Then(deleteClientByUsername(x, x.username[client]),
                      LAMBDA y : insertClient(y, newUsername, client)),
                 LAMBDA y : {[y EXCEPT !.username[client] = newUsername]})
        decide(x) ==
            IF getClientByUsername(x, newUsername) # NULL
            THEN {Send(x, x.fds[fdsIndex].fd, usernameExists)}
            ELSE rename(x)
    IN  Then(walkChain(m, "clientHashtable", newUsername, FALSE), decide)

\* Lines 349-353.  malloc(sizeof(channel)) reserves the size of a pointer for
\* the Channel and leaves head and tail as they were in memory; head is read
\* at line 357.
createChannel(m, name) ==
    LET new == m.nChan + 1
        made == IF new \notin ChanIds THEN {Crash(m)}
                ELSE { [m EXCEPT !.nChan = new, !.chanName[new] = name,
                                 !.chanHead[new] = h, !.chanTail[new] = t]
                       : h \in Garbage, t \in Garbage }
    IN  Then(Then(made, Undefined), LAMBDA x : insertChannel(x, name, new))

\* Lines 355-363: append the client to the member list of the channel.
joinChannel(m, client, channel) ==
    LET m2 == [m EXCEPT !.channel[client] = channel]
        tail == m2.chanTail[channel]
        m3 == IF m2.chanHead[channel] = NULL
              THEN [m2 EXCEPT !.chanHead[channel] = client]
              ELSE IF ~IsClient(m2, tail) THEN Crash(m2)
              ELSE [[m2 EXCEPT !.nextInChannel[tail] = client]
                       EXCEPT !.prevInChannel[client] = tail]
    IN  IF Running(m3) THEN [m3 EXCEPT !.chanTail[channel] = client] ELSE m3

\* Lines 339-364: "\join <name>".
onJoin(m, client, name) ==
    LET lookedUp == walkChain(m, "channelHashtable", name, FALSE)
        ensure(x) == IF getChannelByName(x, name) = NULL
                     THEN createChannel(x, name) ELSE {x}
    IN  Then(Then(lookedUp, ensure),
             LAMBDA x : {joinChannel(x, client, getChannelByName(x, name))})

\* Lines 376-380: the loop over the member list of the sender's channel.
RECURSIVE broadcast(_, _, _, _, _)
broadcast(m, client, c, message, fuel) ==
    IF c = NULL THEN {m}
    ELSE IF ~IsClient(m, c) THEN {Crash(m)}
    ELSE IF fuel = 0 THEN {Hang(m)}
    ELSE LET m1 == IF c # client
                   THEN Send(m, m.fds[m.fdsIndex[c]].fd, message)
                   ELSE m
         IN  Then(ReadField(m1, "nextInChannel", c),
                  LAMBDA x : broadcast(x, client, x.nextInChannel[c], message, fuel - 1))

\* Lines 365-381: a line that is not a command.
\* Line 374 builds "<username>> <buffer>" from the string that starts at
\* buffer; the channel-less continue of line 369 skips the memset of 383.
onChat(m, client) ==
    LET go(x) ==
            IF x.channel[client] = NULL THEN {x}
            ELSE IF ~IsChannel(x, x.channel[client]) THEN {Crash(x)}
            ELSE Then(broadcast(x, client, x.chanHead[x.channel[client]],
                                x.username[client] \o <<62, 32>> \o x.buffer,
                                x.nAlloc),
                      LAMBDA y : {clearBuffer(y)})
    IN  Then(ReadField(m, "channel", client), go)

\* strncmp(buffer + 1, keyword, strlen(keyword)) == 0 after buffer[0] == '\\'
\* (lines 314, 316, 335, 339): the bytes behind '\' start with keyword.
hasKeyword(buffer, keyword) ==
    /\ Len(buffer) >= 1 + Len(keyword)
    /\ buffer[1] = 92
    /\ SubSeq(buffer, 2, 1 + Len(keyword)) = keyword

\* Lines 317-321 and 341-344: length = bytesRead - skip bytes are copied from
\* buffer + skip and the last of them is overwritten with the terminator.
argument(buffer, bytesRead, skip) == SubSeq(buffer, skip + 1, bytesRead - 1)

\* Lines 314-364: a line that starts with '\'.  The three keywords are
\* tested in this order; anything else falls through to the memset.
onCommand(m, client, bytesRead) ==
    IF hasKeyword(m.buffer, setusernameKeyword)
    THEN Then(IF bytesRead > 13 THEN {m} ELSE Undefined(m),
              LAMBDA x : onSetUsername(x, client, x.fdsIndex[client],
                                       argument(x.buffer, bytesRead, 13)))
    ELSE IF hasKeyword(m.buffer, exitKeyword) THEN onExit(m, client)
    ELSE IF hasKeyword(m.buffer, joinKeyword)
    THEN Then(IF bytesRead > 6 THEN {m} ELSE Undefined(m),
              LAMBDA x : onJoin(x, client, argument(x.buffer, bytesRead, 6)))
    ELSE {m}

\* Lines 306-383: what the loop body does for a client whose slot is ready.
\* read() returns 0 on a closed connection and leaves buffer alone.
handleClient(m, client, ev) ==
    IF ev.kind = "eof"
    THEN Then(onDisconnect(m, client), LAMBDA x : {clearBuffer(x)})
    ELSE IF readLine(m, ev.line).buffer[1] = 92
    THEN Then(onCommand(readLine(m, ev.line), client, Len(ev.line)),
              LAMBDA x : {clearBuffer(x)})
    ELSE onChat(readLine(m, ev.line), client)

\* The events after which the client's slot is gone (lines 308 and 336).
closes(m, ev) ==
    \/ ev.kind = "eof"
    \/ hasKeyword(readLine(m, ev.line).buffer, exitKeyword)

\* Lines 299-385: the loop over the chat list.  ready is the set of slots
\* whose revents has POLLIN; read() takes the one pending line, so a second
\* client met with a ready slot blocks in read().  freeClient clears the
\* revents it moves (lines 174-179).
RECURSIVE clientLoop(_, _, _, _, _)
clientLoop(m, client, ready, ev, fuel) ==
    IF client = NULL THEN {m}
    ELSE IF ~IsClient(m, client) THEN {Crash(m)}
    ELSE IF fuel = 0 THEN {Hang(m)}
    ELSE LET isReady == m.fdsIndex[client] \in ready
             body == IF ~isReady THEN {m}
                     ELSE IF m.handled # NULL THEN {Hang(m)}
                     ELSE handleClient([m EXCEPT !.handled = client], client, ev)
             left == IF isReady /\ closes(m, ev) THEN {} ELSE ready
         IN  Then(Then(body, LAMBDA x : ReadField(x, "nextInChat", client)),
                  LAMBDA x : clientLoop(x, x.nextInChat[client], left, ev, fuel - 1))

\* poll(fds, numClients + 1, timeout) reports the slots that hold fd.
readySlots(m, fd) == { i \in 1 .. m.numClients : i \in Slots /\ m.fds[i].fd = fd }

\* Lines 256-387: one iteration of the while loop of main(), woken by a
\* connection request (ev.kind = "accept") or by client data on ev.fd.
iteration(m, ev) ==
    Then(IF ev.kind = "accept" THEN onAccept(m) ELSE {m},
         LAMBDA x : clientLoop(x, x.chatHead,
                               IF ev.kind = "accept" THEN {} ELSE readySlots(x, ev.fd),
                               ev, 2 * MaxAlloc + 2))

\* ------------------------------------------------------------- state
VARIABLES
    pc,                \* "poll": in poll(); "crashed"; "hung"; "blocked"
    nAlloc,            \* Client objects allocated so far (never freed)
    username, fdsIndex, nextInChat, prevInChat,
    nextInChannel, prevInChannel, channel,      \* struct Client fields
    chatHead, chatTail,
    clientHashtable,
    nChan,             \* Channel objects allocated so far
    chanName, chanHead, chanTail,               \* struct Channel fields
    channelHashtable,
    fds, numClients,
    owner,             \* the kernel's table: open descriptor -> connection
    buffer             \* char buffer[1024] of main(), as a string

vars == <<pc, nAlloc, username, fdsIndex, nextInChat, prevInChat,
          nextInChannel, prevInChannel, channel, chatHead, chatTail,
          clientHashtable, nChan, chanName, chanHead, chanTail,
          channelHashtable, fds, numClients, owner, buffer>>

\* The memory image of the current state.
Mem ==
    [pc |-> pc, nAlloc |-> nAlloc, username |-> username, fdsIndex |-> fdsIndex,
     nextInChat |-> nextInChat, prevInChat |-> prevInChat,
     nextInChannel |-> nextInChannel, prevInChannel |-> prevInChannel,
     channel |-> channel, chatHead |-> chatHead, chatTail |-> chatTail,
     clientHashtable |-> clientHashtable, nChan |-> nChan,
     chanName |-> chanName, chanHead |-> chanHead, chanTail |-> chanTail,
     channelHashtable |-> channelHashtable, fds |-> fds,
     numClients |-> numClients, owner |-> owner, buffer |-> buffer,
     sent |-> <<>>, handled |-> NULL, slow |-> {}]

Init ==
    /\ pc = InitMem.pc /\ nAlloc = InitMem.nAlloc
    /\ username = InitMem.username /\ fdsIndex = InitMem.fdsIndex
    /\ nextInChat = InitMem.nextInChat /\ prevInChat = InitMem.prevInChat
    /\ nextInChannel = InitMem.nextInChannel
    /\ prevInChannel = InitMem.prevInChannel
    /\ channel = InitMem.channel
    /\ chatHead = InitMem.chatHead /\ chatTail = InitMem.chatTail
    /\ clientHashtable = InitMem.clientHashtable
    /\ nChan = InitMem.nChan /\ chanName = InitMem.chanName
    /\ chanHead = InitMem.chanHead /\ chanTail = InitMem.chanTail
    /\ channelHashtable = InitMem.channelHashtable
    /\ fds = InitMem.fds /\ numClients = InitMem.numClients
    /\ owner = InitMem.owner
    /\ buffer \in StackGarbage

\* The state the loop is in when it is back in poll().  A process that died
\* or hangs has no memory worth looking at: only pc is kept.
Commit(r) ==
    IF r.pc # "poll"
    THEN /\ pc' = r.pc /\ nAlloc' = InitMem.nAlloc
         /\ username' = InitMem.username /\ fdsIndex' = InitMem.fdsIndex
         /\ nextInChat' = InitMem.nextInChat /\ prevInChat' = InitMem.prevInChat
         /\ nextInChannel' = InitMem.nextInChannel
         /\ prevInChannel' = InitMem.prevInChannel
         /\ channel' = InitMem.channel
         /\ chatHead' = InitMem.chatHead /\ chatTail' = InitMem.chatTail
         /\ clientHashtable' = InitMem.clientHashtable
         /\ nChan' = InitMem.nChan /\ chanName' = InitMem.chanName
         /\ chanHead' = InitMem.chanHead /\ chanTail' = InitMem.chanTail
         /\ channelHashtable' = InitMem.channelHashtable
         /\ fds' = InitMem.fds /\ numClients' = InitMem.numClients
         /\ owner' = InitMem.owner
         /\ buffer' = InitMem.buffer
    ELSE /\ pc' = r.pc /\ nAlloc' = r.nAlloc
         /\ username' = r.username /\ fdsIndex' = r.fdsIndex
         /\ nextInChat' = r.nextInChat /\ prevInChat' = r.prevInChat
         /\ nextInChannel' = r.nextInChannel
         /\ prevInChannel' = r.prevInChannel
         /\ channel' = r.channel
         /\ chatHead' = r.chatHead /\ chatTail' = r.chatTail
         /\ clientHashtable' = r.clientHashtable
         /\ nChan' = r.nChan /\ chanName' = r.chanName
         /\ chanHead' = r.chanHead /\ chanTail' = r.chanTail
         /\ channelHashtable' = r.channelHashtable
         /\ fds' = r.fds /\ numClients' = r.numClients
         /\ owner' = r.owner
         /\ buffer' = r.buffer

Event(kind, fd, line) == [kind |-> kind, fd |-> fd, line |-> line]

\* A peer can send or hang up on a connection the kernel holds open, and
\* poll() wakes the loop when a slot it watches holds that descriptor.
Wakes(fd) == pc = "poll" /\ owner[fd] # NULL /\ readySlots(Mem, fd) # {}

Accept(limit) ==
    /\ pc = "poll"
    /\ nAlloc < limit
    /\ \E r \in iteration(Mem, Event("accept", serverFD, <<>>)) : Commit(r)

Disconnect ==
    \E fd \in FdRange :
        /\ Wakes(fd)
        /\ \E r \in iteration(Mem, Event("eof", fd, <<>>)) : Commit(r)

Exit ==
    \E fd \in FdRange :
        /\ Wakes(fd)
        /\ \E r \in iteration(Mem, Event("data", fd, ExitLine)) : Commit(r)

SetUsername(names) ==
    \E fd \in FdRange, n \in names :
        /\ Wakes(fd)
        /\ \E r \in iteration(Mem, Event("data", fd, SetUsernameLine(n))) : Commit(r)

Join(names) ==
    \E fd \in FdRange, n \in names :
        /\ Wakes(fd)
        /\ \E r \in iteration(Mem, Event("data", fd, JoinLine(n))) : Commit(r)

\* The connections whose peer can be slow while a line from fd is handled:
\* none, or one of the other open connections.
SlowPeers(fd) ==
    {{}} \cup { {d} : d \in { e \in FdRange : e # fd /\ owner[e] # NULL } }

Chat(texts) ==
    \E fd \in FdRange, text \in texts :
        /\ Wakes(fd)
        /\ \E slow \in SlowPeers(fd) :
               \E r \in iteration([Mem EXCEPT !.slow = slow],
                                  Event("data", fd, text)) : Commit(r)

UnknownCommand ==
    \E fd \in FdRange, line \in OtherCommands :
        /\ Wakes(fd)
        /\ \E r \in iteration(Mem, Event("data", fd, line)) : Commit(r)

Next ==
    \/ Accept(MaxAlloc)
    \/ Disconnect
    \/ Exit
    \/ SetUsername(OneRename)
    \/ Join(OneChannel)
    \/ Chat({ChatText})
    \/ UnknownCommand

Spec == Init /\ [][Next]_vars

NextWide ==
    \/ Accept(WideAlloc)
    \/ Disconnect
    \/ Exit
    \/ SetUsername(RenameNames)
    \/ Join(ChanNames)
    \/ Chat({ChatText})
    \/ UnknownCommand

SpecWide == Init /\ [][NextWide]_vars

\* Three clients, one channel, and two chat lines of different lengths.
NextText ==
    \/ Accept(MaxAlloc)
    \/ Join(OneChannel)
    \/ Chat(ChatTexts)

SpecText == Init /\ [][NextText]_vars

\* ------------------------------------------------------ observations
Range(s) == { s[i] : i \in DOMAIN s }

\* The clients whose connection the kernel holds open, and the descriptor
\* accept() returned for each.
Connected == { owner[fd] : fd \in FdRange } \ {NULL}
HandleOf(c) == CHOOSE fd \in FdRange : owner[fd] = c

\* The objects met from p along the field next, up to the first pointer
\* that is not the address of a Client, and that pointer.
RECURSIVE Walk(_, _, _, _)
Walk(m, next, p, fuel) ==
    IF ~IsClient(m, p) \/ fuel = 0 THEN <<>>
    ELSE <<p>> \o Walk(m, next, m[next][p], fuel - 1)

RECURSIVE WalkEnd(_, _, _, _)
WalkEnd(m, next, p, fuel) ==
    IF ~IsClient(m, p) \/ fuel = 0 THEN p
    ELSE WalkEnd(m, next, m[next][p], fuel - 1)

Reverse(s) == [i \in 1 .. Len(s) |-> s[Len(s) + 1 - i]]

\* The member list of channel q as the broadcast loop walks it.
Members(m, q) == Walk(m, "nextInChannel", m.chanHead[q], m.nAlloc + 1)

\* Some bucket of the Identity Registry holds the name n.
Registered(m, n) ==
    /\ hash(n, MAX_CLIENTS) \in DOMAIN m.clientHashtable
    /\ FindIdx(m.clientHashtable[hash(n, MAX_CLIENTS)], n) > 0

\* ------------------------------------------------------------ claims
\* C1: no two buckets of the Identity Registry hold the same display name
\* and no two connected clients have the same display name, default names
\* "user<handle>" included.
UniqueDisplayNames ==
    pc = "poll" =>
        /\ \A c, d \in Connected : c # d => username[c] # username[d]
        /\ \A idx \in DOMAIN clientHashtable :
               \A i, j \in DOMAIN clientHashtable[idx].items :
                   i # j => clientHashtable[idx].items[i].key
                              # clientHashtable[idx].items[j].key

\* C2: a chat line from a connected member A of channel X is sent to the
\* handle of every other connected client whose channel is X.
DeliveryComplete ==
    \A fd \in FdRange :
        (Wakes(fd) /\ IsChannel(Mem, channel[owner[fd]])) =>
            \A r \in iteration(Mem, Event("data", fd, ChatText)) :
                \A b \in Connected \ {owner[fd]} :
                    channel[b] = channel[owner[fd]] =>
                        \E i \in DOMAIN r.sent :
                            /\ r.sent[i].fd = HandleOf(b)

\* C3: a chat line from a connected member A of channel X is never sent to
\* the handle of a client whose channel is not X, nor to A itself.
ChannelIsolation ==
    \A fd \in FdRange :
        (Wakes(fd) /\ IsChannel(Mem, channel[owner[fd]])) =>
            \A r \in iteration(Mem, Event("data", fd, ChatText)) :
                \A i \in DOMAIN r.sent :
                    (r.sent[i].fd \in FdRange /\ owner[r.sent[i].fd] # NULL) =>
                        /\ owner[r.sent[i].fd] # owner[fd]
                        /\ channel[owner[r.sent[i].fd]] = channel[owner[fd]]

\* C4: when a client disconnects while other clients remain connected, the
\* server goes on with numClients one less and with the client in no
\* channel's member-list traversal.
DisconnectedUnreachable ==
    \A fd \in FdRange :
        (Wakes(fd) /\ Cardinality(Connected) > 1) =>
            \A r \in iteration(Mem, Event("eof", fd, <<>>)) :
                Running(r) =>
                    /\ r.numClients = numClients - 1
                    /\ \A q \in 1 .. r.nChan : owner[fd] \notin Range(Members(r, q))

\* C5: the traversal from chatHead via nextInChat visits exactly the
\* connected clients, each once, and ends; the traversal from chatTail via
\* prevInChat visits the reverse sequence and ends; chatHead and chatTail
\* are NULL exactly when no client is connected.
DirectoryIntegrity ==
    pc = "poll" =>
        LET forward == Walk(Mem, "nextInChat", chatHead, nAlloc + 1)
            backward == Walk(Mem, "prevInChat", chatTail, nAlloc + 1)
        IN  /\ WalkEnd(Mem, "nextInChat", chatHead, nAlloc + 1) = NULL
            /\ Range(forward) = Connected
            /\ Len(forward) = Cardinality(Connected)
            /\ WalkEnd(Mem, "prevInChat", chatTail, nAlloc + 1) = NULL
            /\ backward = Reverse(forward)
            /\ (chatHead = NULL) <=> (Connected = {})
            /\ (chatTail = NULL) <=> (Connected = {})

\* C6: the slots that hold the handle of a connected client are exactly
\* 1..numClients, numClients is the number of connected clients, and slot 0
\* holds the listening handle.
SlotDensity ==
    pc = "poll" =>
        /\ fds[0].fd = serverFD
        /\ numClients = Cardinality(Connected)
        /\ { i \in Slots \ {0} : fds[i].fd \in FdRange /\ owner[fds[i].fd] # NULL }
               = 1 .. numClients

\* C7: for every connected client c, fds[c.fdsIndex].fd is the handle of c
\* and no other connected client has the same fdsIndex; so a client whose
\* handle a removal moved has the index of the slot it was moved to.
SlotIndexMatches ==
    pc = "poll" =>
        \A c \in Connected :
            /\ fdsIndex[c] \in Slots \ {0}
            /\ fds[fdsIndex[c]].fd = HandleOf(c)
            /\ \A d \in Connected : d # c => fdsIndex[d] # fdsIndex[c]

\* A removal has moved a handle: client 3, accepted into slot 3 after
\* clients 1 and 2, is in slot 1 now, and client 2 is still in slot 2.
SlotMoved ==
    /\ pc = "poll"
    /\ Connected = {2, 3}
    /\ fdsIndex[2] = 2
    /\ fdsIndex[3] = 1
    /\ fds[1].fd = HandleOf(3)

\* The outcome of a rejected \setusername from the client of fd: the state
\* as it was, and the notice on fd.
Rejected(fd) ==
    [Send(Mem, fd, usernameExists) EXCEPT !.handled = owner[fd],
                                           !.buffer = <<>>]

\* C8: a \setusername for a name some bucket of the Identity Registry holds
\* changes nothing (registry, display names, channels and member lists,
\* directory, slots, numClients, open connections) and sends exactly one
\* message, the notice "Username already exists", to the sender's handle.
RejectedRenamePure ==
    \A fd \in FdRange, n \in UserNames :
        (Wakes(fd) /\ Registered(Mem, n)) =>
            iteration(Mem, Event("data", fd, SetUsernameLine(n))) = {Rejected(fd)}

\* A client asks for the name another connected client has, and gets the
\* notice.
RenameRejected ==
    \E fd \in FdRange, d \in Connected :
        /\ Wakes(fd)
        /\ d # owner[fd]
        /\ username[d] # username[owner[fd]]
        /\ Registered(Mem, username[d])
        /\ \E r \in iteration(Mem, Event("data", fd, SetUsernameLine(username[d]))) :
               r.sent = <<[fd |-> fd, msg |-> usernameExists]>>

\* What C9 compares: the registry, the directory, the member lists, the
\* slot table and numClients of a server that goes on, pc otherwise.
Outcome(r) ==
    IF ~Running(r) THEN <<r.pc>>
    ELSE <<r.clientHashtable, r.chatHead, r.chatTail, r.nextInChat, r.prevInChat,
           r.channel, r.chanHead, r.chanTail, r.nextInChannel, r.prevInChannel,
           r.fds, r.fdsIndex, r.numClients>>

\* C9: from the same state, "\exit" from a client and a read of 0 or less
\* from that client end in the same registry, directory, member lists, slot
\* table and numClients.
ExitIsDisconnect ==
    \A fd \in FdRange :
        Wakes(fd) =>
            { Outcome(r) : r \in iteration(Mem, Event("data", fd, ExitLine)) }
                = { Outcome(r) : r \in iteration(Mem, Event("eof", fd, <<>>)) }

\* C10: when a member of channel X joins another channel Y, it is afterwards
\* once in the traversal of Y's member list and in the traversal of no other
\* channel, and X's list holds its other members as before.
JoinLeavesOldChannel ==
    \A fd \in FdRange, n \in ChanNames :
        (Wakes(fd) /\ IsChannel(Mem, channel[owner[fd]])
                   /\ chanName[channel[owner[fd]]] # n) =>
            \A r \in iteration(Mem, Event("data", fd, JoinLine(n))) :
                Running(r) =>
                    LET c == owner[fd]
                        X == channel[c]
                        Y == r.channel[c]
                    IN  /\ Cardinality({ i \in DOMAIN Members(r, Y) :
                                            Members(r, Y)[i] = c }) = 1
                        /\ \A q \in (1 .. r.nChan) \ {Y} :
                               c \notin Range(Members(r, q))
                        /\ Range(Members(r, X)) = Range(Members(Mem, X)) \ {c}

\* C11: every channel's member list is a well-formed doubly linked list: the
\* traversal from head via nextInChannel ends, visits each connected client
\* whose channel it is exactly once and nobody else, prevInChannel inverts
\* nextInChannel, head has no predecessor, and tail is the last node
\* reached and has no successor.
MemberListsWellFormed ==
    pc = "poll" =>
        \A q \in 1 .. nChan :
            LET list == Members(Mem, q)
            IN  /\ WalkEnd(Mem, "nextInChannel", chanHead[q], nAlloc + 1) = NULL
                /\ Cardinality(Range(list)) = Len(list)
                /\ Range(list) = { c \in Connected : channel[c] = q }
                /\ \A i \in 1 .. (Len(list) - 1) :
                       prevInChannel[list[i + 1]] = list[i]
                /\ list # <<>> =>
                       /\ prevInChannel[list[1]] = NULL
                       /\ chanTail[q] = list[Len(list)]

\* C12: a \setusername for a name no bucket of the Identity Registry holds
\* succeeds: afterwards the name is found with the renaming client, the old
\* name is not found, the client's stored name is the new one, and no other
\* client's registry entry or name, nor the directory, the slots or any
\* channel membership has changed.
RenameSucceeds ==
    \A fd \in FdRange, n \in RenameNames :
        (Wakes(fd) /\ ~Registered(Mem, n)) =>
            \A r \in iteration(Mem, Event("data", fd, SetUsernameLine(n))) :
                Running(r) =>
                    /\ getClientByUsername(r, n) = owner[fd]
                    /\ getClientByUsername(r, username[owner[fd]]) = NULL
                    /\ r.username[owner[fd]] = n
                    /\ \A d \in Connected \ {owner[fd]} :
                           /\ r.username[d] = username[d]
                           /\ getClientByUsername(r, username[d])
                                  = getClientByUsername(Mem, username[d])
                    /\ <<r.chatHead, r.chatTail, r.nextInChat, r.prevInChat,
                         r.fds, r.fdsIndex, r.numClients, r.channel, r.chanHead,
                         r.chanTail, r.nextInChannel, r.prevInChannel>>
                         = <<chatHead, chatTail, nextInChat, prevInChat,
                             fds, fdsIndex, numClients, channel, chanHead,
                             chanTail, nextInChannel, prevInChannel>>

\* C13: handling a ready event always completes and control returns to
\* poll(): the server is never in a loop that does not end, whatever events
\* came before, repeated \join commands of one client included.
HandlingReturns == pc # "hung"

\* C14: a broadcast to a channel with a member whose transport cannot
\* accept data does not block the server: the server is never waiting in
\* send().
NeverBlockedInSend == pc # "blocked"

\* C15: every message a chat line causes to be sent is exactly the sender's
\* display name, "> ", and the line that was just read: no bytes of a line
\* read earlier follow it.
RelayedTextExact ==
    \A fd \in FdRange, text \in ChatTexts :
        Wakes(fd) =>
            \A r \in iteration(Mem, Event("data", fd, text)) :
                \A i \in DOMAIN r.sent :
                    r.sent[i].msg = username[owner[fd]] \o <<62, 32>> \o text

\* The client of fd has joined no channel: its channel field is as malloc
\* left it, or was read as NULL.
ChannelLess(fd) == Wakes(fd) /\ ~IsChannel(Mem, channel[owner[fd]])

\* C16: a chat line from a client that is in no channel is dropped: the
\* loop goes back to poll(), nothing is sent, and registry, display names,
\* directory, slots, channels and member lists are as before.
ChannelLessChatDropped ==
    \A fd \in FdRange :
        ChannelLess(fd) =>
            \A r \in iteration(Mem, Event("data", fd, ChatText)) :
                /\ Running(r)
                /\ r.sent = <<>>
                /\ r.clientHashtable = clientHashtable
                /\ r.username = username
                /\ r.chatHead = chatHead /\ r.chatTail = chatTail
                /\ Walk(r, "nextInChat", r.chatHead, r.nAlloc)
                       = Walk(Mem, "nextInChat", chatHead, nAlloc)
                /\ r.fds = fds /\ r.numClients = numClients
                /\ r.fdsIndex = fdsIndex /\ r.owner = owner
                /\ r.channelHashtable = channelHashtable
                /\ r.nChan = nChan /\ r.chanName = chanName
                /\ r.chanHead = chanHead /\ r.chanTail = chanTail
                /\ r.nextInChannel = nextInChannel
                /\ r.prevInChannel = prevInChannel
                /\ \A c \in 1 .. nAlloc :
                       c # owner[fd] => r.channel[c] = channel[c]

\* C17: a line that starts with '\' and whose keyword is none of
\* setusername, exit and join is ignored: nothing is sent, the sender stays
\* connected, and registry, directory, member lists and slots are unchanged.
UnknownCommandIgnored ==
    \A fd \in FdRange, line \in OtherCommands :
        Wakes(fd) =>
            \A r \in iteration(Mem, Event("data", fd, line)) :
                /\ Running(r)
                /\ r.sent = <<>>
                /\ r.owner = owner
                /\ r.clientHashtable = clientHashtable
                /\ r.username = username
                /\ r.chatHead = chatHead /\ r.chatTail = chatTail
                /\ r.nextInChat = nextInChat /\ r.prevInChat = prevInChat
                /\ r.fds = fds /\ r.numClients = numClients
                /\ r.fdsIndex = fdsIndex
                /\ r.channel = channel
                /\ r.chanHead = chanHead /\ r.chanTail = chanTail
                /\ r.nextInChannel = nextInChannel
                /\ r.prevInChannel = prevInChannel

\* C18: disconnect or \exit of a client that is in no channel tears it down
\* and goes back to poll(): the client is in no bucket of the registry, in no
\* slot and not in the directory, its connection is closed, and every
\* channel's member list is as before.
ChannelLessTeardown ==
    \A fd \in FdRange :
        ChannelLess(fd) =>
            \A ev \in {Event("eof", fd, <<>>), Event("data", fd, ExitLine)} :
                \A r \in iteration(Mem, ev) :
                    /\ Running(r)
                    /\ \A idx \in DOMAIN r.clientHashtable :
                           \A i \in DOMAIN r.clientHashtable[idx].items :
                               r.clientHashtable[idx].items[i].value # owner[fd]
                    /\ \A i \in 1 .. r.numClients : r.fds[i].fd # fd
                    /\ owner[fd] \notin Range(Walk(r, "nextInChat", r.chatHead, r.nAlloc))
                    /\ r.owner[fd] = NULL
                    /\ r.chanHead = chanHead /\ r.chanTail = chanTail
                    /\ r.nextInChannel = nextInChannel
                    /\ r.prevInChannel = prevInChannel

\* C19: hash(name, size) lies in [0, size) for the names in use and both
\* table sizes: the bucket index of every connected client's display name
\* is below MAX_CLIENTS and that of every channel's name below MAX_CHANNELS.
HashInRange ==
    pc = "poll" =>
        /\ \A c \in Connected :
               hash(username[c], MAX_CLIENTS) \in 0 .. (MAX_CLIENTS - 1)
        /\ \A q \in 1 .. nChan :
               hash(chanName[q], MAX_CHANNELS) \in 0 .. (MAX_CHANNELS - 1)

\* The sequence s without the client c.
Without(s, c) == LET keep(x) == x # c IN SelectSeq(s, keep)

\* C20: removing a client (disconnect or \exit) leaves the remaining
\* clients of the Client Directory, and the remaining members of every
\* channel, in the relative order they had.
OrderStable ==
    \A fd \in FdRange :
        Wakes(fd) =>
            \A ev \in {Event("eof", fd, <<>>), Event("data", fd, ExitLine)} :
                \A r \in iteration(Mem, ev) :
                    Running(r) =>
                        /\ Walk(r, "nextInChat", r.chatHead, r.nAlloc)
                               = Without(Walk(Mem, "nextInChat", chatHead, nAlloc),
                                         owner[fd])
                        /\ \A q \in 1 .. nChan :
                               Members(r, q) = Without(Members(Mem, q), owner[fd])

\* C21: registry and directory agree: the lookup of the display name of
\* every connected client returns that client, and every bucket of the
\* Identity Registry holds a client that is connected.
RegistryAgreesWithDirectory ==
    pc = "poll" =>
        /\ \A c \in Connected : getClientByUsername(Mem, username[c]) = c
        /\ \A idx \in DOMAIN clientHashtable :
               \A i \in DOMAIN clientHashtable[idx].items :
                   clientHashtable[idx].items[i].value \in Connected

\* ---------------------------------------------------- the client count
\* numClients over long runs.  SpecCapacity follows only pc, numClients and
\* the kernel's table of open descriptors through the three handlers that
\* open or close a connection, for clients whose teardown completes; the
\* lists and tables are left aside.  MaxCount stops the count one past the
\* last slot of fds.
MaxCount == 1001

untracked == <<nAlloc, username, fdsIndex, nextInChat, prevInChat,
               nextInChannel, prevInChannel, channel, chatHead, chatTail,
               clientHashtable, nChan, chanName, chanHead, chanTail,
               channelHashtable, fds, buffer>>

\* Lines 267, 275, 291-294: client->fdsIndex = numClients + 1, the write of
\* fds[client->fdsIndex], numClients++.  No test of numClients against
\* MAX_CLIENTS precedes them; a slot past the end of fds is a write outside
\* the array.
CountAccept ==
    /\ pc = "poll"
    /\ numClients < MaxCount
    /\ \E fd \in FdRange : owner[fd] = NULL
    /\ owner' = [owner EXCEPT ![acceptConnection(Mem)] = WILD]
    /\ numClients' = numClients + 1
    /\ pc' \in IF numClients + 1 > MAX_CLIENTS THEN {"poll", "crashed"}
               ELSE {"poll"}
    /\ UNCHANGED untracked

\* Lines 307-311: freeClient closes the descriptor, then numClients--.
CountDisconnect ==
    \E fd \in FdRange :
        /\ pc = "poll"
        /\ owner[fd] # NULL
        /\ owner' = [owner EXCEPT ![fd] = NULL]
        /\ numClients' = numClients - 1
        /\ UNCHANGED <<pc, untracked>>

\* Lines 335-338: freeClient closes the descriptor; numClients is not
\* touched.
CountExit ==
    \E fd \in FdRange :
        /\ pc = "poll"
        /\ owner[fd] # NULL
        /\ owner' = [owner EXCEPT ![fd] = NULL]
        /\ UNCHANGED <<pc, numClients, untracked>>

NextCapacity == CountAccept \/ CountDisconnect \/ CountExit

SpecCapacity == Init /\ [][NextCapacity]_vars

\* C22: numClients never exceeds MAX_CLIENTS, and whenever a connection can
\* be accepted the slot it would get, numClients + 1, is one of the
\* MAX_CLIENTS + 1 entries of fds.
CapacityRespected ==
    pc = "poll" =>
        /\ numClients <= MAX_CLIENTS
        /\ (\E fd \in FdRange : owner[fd] = NULL) => numClients + 1 <= MAX_CLIENTS

============================================================================
